---- MODULE Spec2Model ----
(***************************************************************************)
(* Blockchain voting system: Vote, Block, Blockchain (ledger),             *)
(* VoterManager (registry) and VotingSystem (coordinator).                 *)
(*                                                                         *)
(* A Vote is a record [voter_id, candidate, timestamp]; a Block is a       *)
(* record [index, timestamp, votes, previous_hash, hash].  A hash value is *)
(* a tuple: the genesis sentinel "0" is <<"0">>, a SHA-256 digest is       *)
(* <<"sha256", s>> with s the canonical JSON document that was hashed      *)
(* (SHA-256 is taken to be collision free), and a hand-written text such   *)
(* as "corrupted_hash" is <<"corrupted_hash">>.                            *)
(***************************************************************************)
EXTENDS Integers, Sequences, FiniteSets, TLC

VARIABLES
    chain,          \* Blockchain.chain: sequence of blocks
    registered,     \* VoterManager._registered_voters
    voted,          \* VoterManager._voted_voters
    pending_votes,  \* VotingSystem.pending_votes
    result,         \* the outcome dictionary returned by the last operation
    admitted,       \* history: votes of the successful cast_vote calls, in order
    clock,          \* the last value time.time() returned
    tampered,       \* history: the chain or a block was changed past the VotingSystem
    calls           \* per caller: where its call in progress stands, and its locals

vars == <<chain, registered, voted, pending_votes, result, admitted, clock,
          tampered, calls>>

(***************************************************************************)
(* Bounds and input sets                                                   *)
(***************************************************************************)
MaxTime == 2

VoterIds == {"alice", "bob"}
Candidates == {"A", "B"}
\* the empty string is the invalid identifier
IdInputs == VoterIds \cup {""}
CandidateInputs == Candidates \cup {""}
\* the values time.time() may return next: the clock does not run backwards
Times == clock .. MaxTime

(***************************************************************************)
(* Vote                                                                    *)
(***************************************************************************)
\* a __post_init__ that does not look at the candidate
VoteDataValid_NoCandidate(voter_id, candidate, timestamp) ==
    /\ voter_id # ""
    /\ timestamp > 0

\* Vote.__post_init__: the checks that raise ValueError
VoteDataValid(voter_id, candidate, timestamp) ==
    /\ voter_id # ""
    /\ candidate # ""
    /\ timestamp > 0

\* create_vote with its two arguments passed in the wrong order
create_vote_SwappedFields(voter_id, candidate, now) ==
    [voter_id |-> candidate, candidate |-> voter_id, timestamp |-> now]

create_vote(voter_id, candidate, now) ==
    [voter_id |-> voter_id, candidate |-> candidate, timestamp |-> now]

\* Vote.to_dict
vote_to_dict(vote) ==
    [voter_id |-> vote.voter_id, candidate |-> vote.candidate,
     timestamp |-> vote.timestamp]

(***************************************************************************)
(* Block                                                                   *)
(***************************************************************************)
\* a genesis block whose previous_hash is the empty text
GENESIS_PREVIOUS_HASH_Empty == <<>>

GENESIS_PREVIOUS_HASH == <<"0">>

\* __post_init__ without the check of the index
BlockDataValid_NoIndexCheck(index, timestamp) == timestamp > 0

\* Block.__post_init__: the checks that raise ValueError
BlockDataValid(index, timestamp) ==
    /\ index >= 0
    /\ timestamp > 0

\* a digest over a document that leaves the votes out
calculate_hash_NoVotes(block) ==
    <<"sha256",
      [index |-> block.index,
       previous_hash |-> block.previous_hash,
       timestamp |-> block.timestamp]>>

\* Block.calculate_hash: SHA-256 of the JSON document of the four content
\* fields (the stored hash is not part of it)
calculate_hash(block) ==
    <<"sha256",
      [index |-> block.index,
       previous_hash |-> block.previous_hash,
       timestamp |-> block.timestamp,
       votes |-> [i \in 1 .. Len(block.votes) |-> vote_to_dict(block.votes[i])]]>>

\* a create_block that leaves the hash empty
create_block_NoHash(index, votes, previous_hash, now) ==
    [index |-> index, timestamp |-> now, votes |-> votes,
     previous_hash |-> previous_hash, hash |-> <<>>]

\* Block.create_block followed by __post_init__, which fills in the hash
create_block(index, votes, previous_hash, now) ==
    LET content == [index |-> index, timestamp |-> now, votes |-> votes,
                    previous_hash |-> previous_hash]
    IN  [index |-> index, timestamp |-> now, votes |-> votes,
         previous_hash |-> previous_hash, hash |-> calculate_hash(content)]

\* validate_hash that accepts any stored hash
validate_hash_Always(block) == TRUE

validate_hash(block) == block.hash = calculate_hash(block)

\* a get_latest_block that returns the genesis block
get_latest_block_Genesis == chain[1]

(***************************************************************************)
(* Blockchain                                                              *)
(***************************************************************************)
get_latest_block == chain[Len(chain)]

\* Blockchain.add_block returns True: the chain is not empty (else IndexError)
\* and the new block passes Block.__post_init__ (else ValueError)
add_block_ok(votes, now) ==
    /\ chain # <<>>
    /\ BlockDataValid(get_latest_block.index + 1, now)

\* add_block that links the new block to the wrong field of the latest block
add_block_WrongLink(votes, now) ==
    Append(chain, create_block(get_latest_block.index + 1, votes,
                               get_latest_block.previous_hash, now))

\* an add_block that puts the new block in the place of the latest one
add_block_ReplaceLatest(votes, now) ==
    Append(SubSeq(chain, 1, Len(chain) - 1),
           create_block(get_latest_block.index + 1, votes,
                        get_latest_block.hash, now))

\* the chain after a successful Blockchain.add_block
add_block(votes, now) ==
    Append(chain, create_block(get_latest_block.index + 1, votes,
                               get_latest_block.hash, now))

\* a validate_chain that does not compare the indexes of neighbouring blocks
validate_chain_of_NoIndexCheck(blocks) ==
    /\ blocks # <<>>
    /\ blocks[1].index = 0
    /\ blocks[1].previous_hash = GENESIS_PREVIOUS_HASH
    /\ validate_hash(blocks[1])
    /\ \A i \in 2 .. Len(blocks) :
          /\ validate_hash(blocks[i])
          /\ blocks[i].previous_hash = blocks[i - 1].hash

\* a validate_chain that looks at the latest block and its link only
validate_chain_of_LatestOnly(blocks) ==
    /\ blocks # <<>>
    /\ validate_hash(blocks[Len(blocks)])
    /\ IF Len(blocks) = 1
       THEN blocks[1].index = 0 /\ blocks[1].previous_hash = GENESIS_PREVIOUS_HASH
       ELSE /\ blocks[Len(blocks)].previous_hash = blocks[Len(blocks) - 1].hash
            /\ blocks[Len(blocks)].index = blocks[Len(blocks) - 1].index + 1

\* Blockchain.validate_chain of the Blockchain object whose chain is blocks
validate_chain_of(blocks) ==
    /\ blocks # <<>>
    /\ blocks[1].index = 0
    /\ blocks[1].previous_hash = GENESIS_PREVIOUS_HASH
    /\ validate_hash(blocks[1])
    /\ \A i \in 2 .. Len(blocks) :
          /\ validate_hash(blocks[i])
          /\ blocks[i].previous_hash = blocks[i - 1].hash
          /\ blocks[i].index = blocks[i - 1].index + 1

\* self.blockchain.validate_chain()
validate_chain == validate_chain_of(chain)

\* a get_all_votes that puts the votes of later blocks first
RECURSIVE all_votes_upto_LatestFirst(_, _)
all_votes_upto_LatestFirst(blocks, n) ==
    IF n = 0 THEN <<>>
    ELSE blocks[n].votes \o all_votes_upto_LatestFirst(blocks, n - 1)

\* Blockchain.get_all_votes of the Blockchain object whose chain is blocks:
\* the votes of the first n blocks
RECURSIVE all_votes_upto(_, _)
all_votes_upto(blocks, n) ==
    IF n = 0 THEN <<>> ELSE all_votes_upto(blocks, n - 1) \o blocks[n].votes

get_all_votes_of(blocks) == all_votes_upto(blocks, Len(blocks))

\* self.blockchain.get_all_votes()
get_all_votes == get_all_votes_of(chain)

get_block_count == Len(chain)

(***************************************************************************)
(* VoterManager                                                            *)
(***************************************************************************)
\* a test that takes every id for valid
ValidId_Always(voter_id) == TRUE

\* the "not voter_id" test shared by the VoterManager methods
ValidId(voter_id) == voter_id # ""

\* an is_registered that knows no voter
is_registered_Never(voter_id) == FALSE

is_registered(voter_id) == ValidId(voter_id) /\ voter_id \in registered

\* has_voted that forgets the voted set
has_voted_Never(voter_id) == FALSE

has_voted(voter_id) == ValidId(voter_id) /\ voter_id \in voted

\* a mark_as_voted that accepts any non-empty id
mark_as_voted_raises_NoLookup(voter_id) == ~ValidId(voter_id)

\* VoterManager.mark_as_voted raises ValueError
mark_as_voted_raises(voter_id) ==
    ~ValidId(voter_id) \/ voter_id \notin registered

\* a mark_as_voted that looks the id up before it tests it for emptiness
mark_as_voted_error_LookupFirst(voter_id) ==
    IF voter_id \notin registered
    THEN "Voter must be registered before marking as voted"
    ELSE "voter_id must be a non-empty string"

\* the message of the ValueError that VoterManager.mark_as_voted raises
mark_as_voted_error(voter_id) ==
    IF ~ValidId(voter_id)
    THEN "voter_id must be a non-empty string"
    ELSE "Voter must be registered before marking as voted"

\* mark_as_voted that does not record the voter
mark_as_voted_Skip(voter_id) == voted

\* the voted set after VoterManager.mark_as_voted (the caller has checked
\* that voter_id is registered, so neither ValueError is raised)
mark_as_voted(voter_id) == voted \cup {voter_id}

(***************************************************************************)
(* VotingSystem                                                            *)
(***************************************************************************)
Outcome(op, success, error) == [op |-> op, success |-> success, error |-> error]

\* the threads that call the VotingSystem
Callers == {"t1", "t2"}

\* a caller with no call in progress
Idle == [pc |-> "idle", voter_id |-> "", candidate |-> "", votes_for_block |-> <<>>]

Init ==
    /\ clock = 1
    /\ chain = <<create_block(0, <<>>, GENESIS_PREVIOUS_HASH, 1)>>
    /\ registered = {}
    /\ voted = {}
    /\ pending_votes = <<>>
    /\ result = Outcome("init", TRUE, "")
    /\ admitted = <<>>
    /\ tampered = FALSE
    /\ calls = [caller \in Callers |-> Idle]

register_voter(voter_id) ==
    /\ IF ~ValidId(voter_id)
       THEN /\ result' = Outcome("register_voter", FALSE, "INVALID_VOTER_ID")
            /\ UNCHANGED registered
       ELSE IF voter_id \in registered
       THEN /\ result' = Outcome("register_voter", FALSE, "DUPLICATE_VOTER")
            /\ UNCHANGED registered
       ELSE /\ registered' = registered \cup {voter_id}
            /\ result' = Outcome("register_voter", TRUE, "")
    /\ UNCHANGED <<chain, voted, pending_votes, admitted, clock, tampered, calls>>

\* cast_vote that marks the voter before the Vote is constructed, so that an
\* invalid candidate leaves the voter marked with nothing staged
cast_vote_MarkFirst(voter_id, candidate, now) ==
    /\ IF ~is_registered(voter_id)
       THEN /\ result' = Outcome("cast_vote", FALSE, "UNREGISTERED_VOTER")
            /\ UNCHANGED <<pending_votes, voted, admitted, clock>>
       ELSE IF has_voted(voter_id)
       THEN /\ result' = Outcome("cast_vote", FALSE, "ALREADY_VOTED")
            /\ UNCHANGED <<pending_votes, voted, admitted, clock>>
       ELSE IF ~VoteDataValid(voter_id, candidate, now)
       THEN /\ result' = Outcome("cast_vote", FALSE, "INVALID_VOTE_DATA")
            /\ voted' = mark_as_voted(voter_id)
            /\ clock' = now
            /\ UNCHANGED <<pending_votes, admitted>>
       ELSE /\ pending_votes' =
                  Append(pending_votes, create_vote(voter_id, candidate, now))
            /\ voted' = mark_as_voted(voter_id)
            /\ admitted' = Append(admitted, create_vote(voter_id, candidate, now))
            /\ clock' = now
            /\ result' = Outcome("cast_vote", TRUE, "")
    /\ UNCHANGED <<chain, registered, tampered, calls>>

cast_vote(voter_id, candidate, now) ==
    /\ IF ~is_registered(voter_id)
       THEN /\ result' = Outcome("cast_vote", FALSE, "UNREGISTERED_VOTER")
            /\ UNCHANGED <<pending_votes, voted, admitted, clock>>
       ELSE IF has_voted(voter_id)
       THEN /\ result' = Outcome("cast_vote", FALSE, "ALREADY_VOTED")
            /\ UNCHANGED <<pending_votes, voted, admitted, clock>>
       ELSE IF ~VoteDataValid(voter_id, candidate, now)
       THEN /\ result' = Outcome("cast_vote", FALSE, "INVALID_VOTE_DATA")
            /\ clock' = now
            /\ UNCHANGED <<pending_votes, voted, admitted>>
       ELSE /\ pending_votes' =
                  Append(pending_votes, create_vote(voter_id, candidate, now))
            /\ voted' = mark_as_voted(voter_id)
            /\ admitted' = Append(admitted, create_vote(voter_id, candidate, now))
            /\ clock' = now
            /\ result' = Outcome("cast_vote", TRUE, "")
    /\ UNCHANGED <<chain, registered, tampered, calls>>

\* the emptiness test that never finds pending_votes empty
no_pending_votes_Never == FALSE

\* "if not self.pending_votes"
no_pending_votes == pending_votes = <<>>

\* a copy that misses the first pending vote
votes_for_block_DropFirst == Tail(pending_votes)

\* votes_for_block = self.pending_votes.copy()
votes_for_block == pending_votes

\* create_block_from_pending_votes without self.pending_votes.clear()
create_block_from_pending_votes_NoClear(now) ==
    /\ IF no_pending_votes
       THEN /\ result' = Outcome("create_block", FALSE, "NO_PENDING_VOTES")
            /\ UNCHANGED <<chain, pending_votes, clock>>
       ELSE IF add_block_ok(votes_for_block, now)
       THEN /\ chain' = add_block(votes_for_block, now)
            /\ clock' = now
            /\ result' = Outcome("create_block", TRUE, "")
            /\ UNCHANGED pending_votes
       ELSE /\ result' = Outcome("create_block", FALSE, "BLOCK_CREATION_FAILED")
            /\ clock' = IF chain = <<>> THEN clock ELSE now
            /\ UNCHANGED <<chain, pending_votes>>
    /\ UNCHANGED <<registered, voted, admitted, tampered, calls>>

create_block_from_pending_votes(now) ==
    /\ IF no_pending_votes
       THEN /\ result' = Outcome("create_block", FALSE, "NO_PENDING_VOTES")
            /\ UNCHANGED <<chain, pending_votes, clock>>
       ELSE IF add_block_ok(votes_for_block, now)
       THEN /\ chain' = add_block(votes_for_block, now)
            /\ pending_votes' = <<>>
            /\ clock' = now
            /\ result' = Outcome("create_block", TRUE, "")
       ELSE /\ result' = Outcome("create_block", FALSE, "BLOCK_CREATION_FAILED")
            /\ clock' = IF chain = <<>> THEN clock ELSE now
            /\ UNCHANGED <<chain, pending_votes>>
    /\ UNCHANGED <<registered, voted, admitted, tampered, calls>>

VoterIdsOf(votes) == {votes[i].voter_id : i \in 1 .. Len(votes)}

\* VotingSystem.validate_system_integrity of the VotingSystem object system,
\* a record [chain, registered, voted, pending_votes]
validate_system_integrity_of(system) ==
    LET all_votes == get_all_votes_of(system.chain)
        voted_voters == system.voted
        blockchain_voters == VoterIdsOf(all_votes)
        unmarked_voters == blockchain_voters \ voted_voters
        pending_voters == VoterIdsOf(system.pending_votes)
        all_voting_voters == blockchain_voters \cup pending_voters
        extra_voted_voters == voted_voters \ all_voting_voters
        integrity_issues ==
            (IF unmarked_voters # {}
             THEN << <<"Voters in blockchain but not marked as voted",
                       unmarked_voters>> >>
             ELSE <<>>)
            \o (IF extra_voted_voters # {}
                THEN << <<"Voters marked as voted but no votes found",
                          extra_voted_voters>> >>
                ELSE <<>>)
    IN  [success |-> TRUE,
         blockchain_valid |-> validate_chain_of(system.chain),
         integrity_valid |-> Len(integrity_issues) = 0,
         issues |-> integrity_issues,
         total_blocks |-> Len(system.chain),
         total_votes |-> Len(all_votes),
         pending_votes |-> Len(system.pending_votes),
         registered_voters |-> Cardinality(system.registered),
         voted_voters |-> Cardinality(system.voted)]

\* the VotingSystem object itself
self ==
    [chain |-> chain, registered |-> registered, voted |-> voted,
     pending_votes |-> pending_votes]

\* self.validate_system_integrity()
validate_system_integrity == validate_system_integrity_of(self)

\* the empty dict
EmptyDict == [candidate \in {} |-> 0]

\* the counting loop of get_results over the first n votes
RECURSIVE count_votes(_, _)
count_votes(votes, n) ==
    IF n = 0 THEN EmptyDict
    ELSE LET vote_counts == count_votes(votes, n - 1)
             candidate == votes[n].candidate
         IN  IF candidate \in DOMAIN vote_counts
             THEN [vote_counts EXCEPT ![candidate] = @ + 1]
             ELSE vote_counts @@ (candidate :> 1)

\* sum(vote_counts.values())
RECURSIVE sum_values(_, _)
sum_values(vote_counts, keys) ==
    IF keys = {} THEN 0
    ELSE LET candidate == CHOOSE c \in keys : TRUE
         IN  vote_counts[candidate] + sum_values(vote_counts, keys \ {candidate})

\* a get_results that counts the pending votes as well
votes_to_count_WithPending == get_all_votes \o pending_votes

\* all_votes of get_results
votes_to_count == get_all_votes

\* a validation status that takes the chain for valid without looking
validation_result_NoChainCheck ==
    [validate_system_integrity EXCEPT !.blockchain_valid = TRUE]

\* validation_result of get_results
validation_result == validate_system_integrity

\* VotingSystem.get_results
get_results ==
    LET all_votes == votes_to_count
        vote_counts == count_votes(all_votes, Len(all_votes))
    IN  [success |-> TRUE,
         vote_counts |-> vote_counts,
         total_votes |-> sum_values(vote_counts, DOMAIN vote_counts),
         registered_voters |-> Cardinality(registered),
         voted_voters |-> Cardinality(voted),
         pending_votes |-> Len(pending_votes),
         blockchain_valid |-> validation_result.blockchain_valid,
         integrity_valid |-> validation_result.integrity_valid,
         total_blocks |-> get_block_count,
         validation_issues |-> validation_result.issues]

Next ==
    \/ \E voter_id \in IdInputs : register_voter(voter_id)
    \/ \E voter_id \in IdInputs, candidate \in CandidateInputs, now \in Times :
          cast_vote(voter_id, candidate, now)
    \/ \E now \in Times : create_block_from_pending_votes(now)

Spec == Init /\ [][Next]_vars

(***************************************************************************)
(* Direct mutation of block fields and of the chain list, as the test      *)
(* suite does it (block.hash = "corrupted_hash", block.previous_hash =     *)
(* "wrong_hash", block.index = index + 10, optionally followed by          *)
(* block.hash = block.calculate_hash(); blockchain.chain = []).            *)
(***************************************************************************)
\* the values written over a stored hash: a text that is no digest, and the
\* digest or sentinel the block itself holds as its previous_hash
TamperHashes(i) == {<<"corrupted_hash">>, chain[i].previous_hash}

\* the values written over a previous_hash: a text that is no digest, and
\* the block's own hash
TamperPreviousHashes(i) == {<<"wrong_hash">>, chain[i].hash}

\* the values written over an index: index + 10 as in the tests, and a
\* negative number
TamperIndexes(i) == {chain[i].index + 10, -2}

\* block.hash = block.calculate_hash(), when asked for
Recomputed(block, recompute) ==
    IF recompute THEN [block EXCEPT !.hash = calculate_hash(block)] ELSE block

tamper_hash(i, h) ==
    /\ ~tampered
    /\ h # chain[i].hash
    /\ chain' = [chain EXCEPT ![i].hash = h]
    /\ tampered' = TRUE
    /\ UNCHANGED <<registered, voted, pending_votes, result, admitted, clock,
                   calls>>

tamper_previous_hash(i, h, recompute) ==
    /\ ~tampered
    /\ h # chain[i].previous_hash
    /\ chain' = [chain EXCEPT
                   ![i] = Recomputed([chain[i] EXCEPT !.previous_hash = h],
                                     recompute)]
    /\ tampered' = TRUE
    /\ UNCHANGED <<registered, voted, pending_votes, result, admitted, clock,
                   calls>>

tamper_index(i, n, recompute) ==
    /\ ~tampered
    /\ n # chain[i].index
    /\ chain' = [chain EXCEPT
                   ![i] = Recomputed([chain[i] EXCEPT !.index = n], recompute)]
    /\ tampered' = TRUE
    /\ UNCHANGED <<registered, voted, pending_votes, result, admitted, clock,
                   calls>>

tamper_clear_chain ==
    /\ ~tampered
    /\ chain # <<>>
    /\ chain' = <<>>
    /\ tampered' = TRUE
    /\ UNCHANGED <<registered, voted, pending_votes, result, admitted, clock,
                   calls>>

Tamper ==
    \/ \E i \in 1 .. Len(chain) : \E h \in TamperHashes(i) : tamper_hash(i, h)
    \/ \E i \in 1 .. Len(chain), recompute \in BOOLEAN :
          \E h \in TamperPreviousHashes(i) : tamper_previous_hash(i, h, recompute)
    \/ \E i \in 1 .. Len(chain), recompute \in BOOLEAN :
          \E n \in TamperIndexes(i) : tamper_index(i, n, recompute)
    \/ tamper_clear_chain

NextTamper == Next \/ Tamper

SpecTamper == Init /\ [][NextTamper]_vars

(***************************************************************************)
(* Persistence: to_dict / from_dict and load_state.  A decoded JSON        *)
(* document is a record; a key the document lacks is a field the record    *)
(* lacks.  json.dump followed by json.load returns the document it was     *)
(* given (Python writes a float with the digits that read back to the same *)
(* float).  The empty text "" of a hash field is the empty tuple.          *)
(***************************************************************************)
\* Block.to_dict
block_to_dict(block) ==
    [index |-> block.index,
     timestamp |-> block.timestamp,
     votes |-> [i \in 1 .. Len(block.votes) |-> vote_to_dict(block.votes[i])],
     previous_hash |-> block.previous_hash,
     hash |-> block.hash]

\* Blockchain.to_dict
blockchain_to_dict(blocks) ==
    [chain |-> [i \in 1 .. Len(blocks) |-> block_to_dict(blocks[i])]]

\* list(a_set): the members of the set, each once, in an order the set's
\* internals decide
Enumerations(S) ==
    {list \in [1 .. Cardinality(S) -> S] : {list[i] : i \in DOMAIN list} = S}

\* VoterManager.to_dict, the two sets listed as registered_list and voted_list
voter_manager_to_dict(registered_list, voted_list) ==
    [registered_voters |-> registered_list, voted_voters |-> voted_list]

\* VotingSystem.to_dict
to_dict(registered_list, voted_list) ==
    [blockchain |-> blockchain_to_dict(chain),
     voter_manager |-> voter_manager_to_dict(registered_list, voted_list),
     pending_votes |->
        [i \in 1 .. Len(pending_votes) |-> vote_to_dict(pending_votes[i])]]

\* Vote.from_dict does not raise: the keys are there and __post_init__ passes
vote_from_dict_ok(data) ==
    /\ {"voter_id", "candidate", "timestamp"} \subseteq DOMAIN data
    /\ VoteDataValid(data.voter_id, data.candidate, data.timestamp)

vote_from_dict(data) ==
    [voter_id |-> data.voter_id, candidate |-> data.candidate,
     timestamp |-> data.timestamp]

\* Block.from_dict does not raise
block_from_dict_ok(data) ==
    /\ {"index", "timestamp", "votes", "previous_hash", "hash"}
          \subseteq DOMAIN data
    /\ \A i \in 1 .. Len(data.votes) : vote_from_dict_ok(data.votes[i])
    /\ BlockDataValid(data.index, data.timestamp)

\* Block.from_dict: __post_init__ computes the hash when the given one is empty
block_from_dict(data) ==
    LET votes == [i \in 1 .. Len(data.votes) |-> vote_from_dict(data.votes[i])]
        content == [index |-> data.index, timestamp |-> data.timestamp,
                    votes |-> votes, previous_hash |-> data.previous_hash]
    IN  [index |-> data.index,
         timestamp |-> data.timestamp,
         votes |-> votes,
         previous_hash |-> data.previous_hash,
         hash |-> IF data.hash = <<>> THEN calculate_hash(content)
                  ELSE data.hash]

\* Blockchain.from_dict does not raise
blockchain_from_dict_ok(data) ==
    /\ "chain" \in DOMAIN data
    /\ \A i \in 1 .. Len(data.chain) : block_from_dict_ok(data.chain[i])

blockchain_from_dict(data) ==
    [i \in 1 .. Len(data.chain) |-> block_from_dict(data.chain[i])]

\* a from_dict that does not look the voted ids up among the registered
voter_manager_from_dict_ok_NoLookup(data) ==
    /\ {"registered_voters", "voted_voters"} \subseteq DOMAIN data
    /\ \A i \in 1 .. Len(data.registered_voters) : data.registered_voters[i] # ""
    /\ \A i \in 1 .. Len(data.voted_voters) : data.voted_voters[i] # ""

\* VoterManager.from_dict does not raise
voter_manager_from_dict_ok(data) ==
    /\ {"registered_voters", "voted_voters"} \subseteq DOMAIN data
    /\ \A i \in 1 .. Len(data.registered_voters) : data.registered_voters[i] # ""
    /\ \A i \in 1 .. Len(data.voted_voters) :
          /\ data.voted_voters[i] # ""
          /\ \E j \in 1 .. Len(data.registered_voters) :
                data.registered_voters[j] = data.voted_voters[i]

\* the set a list of ids is added to, one id at a time
IdSet(list) == {list[i] : i \in 1 .. Len(list)}

\* a from_dict that leaves the voted set of the new VoterManager empty
voter_manager_from_dict_NoVoted(data) ==
    [registered |-> IdSet(data.registered_voters), voted |-> {}]

\* VoterManager.from_dict: the two sets of the new VoterManager
voter_manager_from_dict(data) ==
    [registered |-> IdSet(data.registered_voters),
     voted |-> IdSet(data.voted_voters)]

\* VotingSystem.from_dict does not raise
from_dict_ok(data) ==
    /\ {"blockchain", "voter_manager", "pending_votes"} \subseteq DOMAIN data
    /\ blockchain_from_dict_ok(data.blockchain)
    /\ voter_manager_from_dict_ok(data.voter_manager)
    /\ \A i \in 1 .. Len(data.pending_votes) :
          vote_from_dict_ok(data.pending_votes[i])

\* VotingSystem.from_dict: the new VotingSystem object
from_dict(data) ==
    [chain |-> blockchain_from_dict(data.blockchain),
     registered |-> voter_manager_from_dict(data.voter_manager).registered,
     voted |-> voter_manager_from_dict(data.voter_manager).voted,
     pending_votes |->
        [i \in 1 .. Len(data.pending_votes) |->
            vote_from_dict(data.pending_votes[i])]]

(***************************************************************************)
(* What load_state may find under the file name: no file, a file that is   *)
(* not JSON, or a JSON document.  The documents are those this object      *)
(* would write now, and documents written elsewhere or edited by hand.     *)
(***************************************************************************)
NoFile == [kind |-> "missing"]
NotJson == [kind |-> "undecodable"]
Json(data) == [kind |-> "json", data |-> data]

GenesisRecord == block_to_dict(create_block(0, <<>>, GENESIS_PREVIOUS_HASH, 1))
AliceVoteRecord == vote_to_dict(create_vote("alice", "A", 1))
AliceBlockRecord ==
    block_to_dict(create_block(1, <<create_vote("alice", "A", 1)>>,
                               GenesisRecord.hash, 1))

StateRecord(blocks, registered_list, voted_list, pending) ==
    [blockchain |-> [chain |-> blocks],
     voter_manager |-> voter_manager_to_dict(registered_list, voted_list),
     pending_votes |-> pending]

\* a fresh VotingSystem, saved
FreshDocument == Json(StateRecord(<<GenesisRecord>>, <<>>, <<>>, <<>>))
\* the same with the genesis hash blanked out
BlankHashDocument ==
    Json(StateRecord(<<[GenesisRecord EXCEPT !.hash = <<>>]>>, <<>>, <<>>, <<>>))
\* the pending_votes section is missing
MissingSectionDocument ==
    Json([blockchain |-> [chain |-> <<GenesisRecord>>],
          voter_manager |-> voter_manager_to_dict(<<>>, <<>>)])
\* a pending vote record with an empty candidate
BadVoteDocument ==
    Json(StateRecord(<<GenesisRecord>>, <<"alice">>, <<"alice">>,
                     <<[AliceVoteRecord EXCEPT !.candidate = ""]>>))
\* a block record with a negative index
BadBlockDocument ==
    Json(StateRecord(<<GenesisRecord, [AliceBlockRecord EXCEPT !.index = -1]>>,
                     <<"alice">>, <<"alice">>, <<>>))
\* a voted id that is not registered
UnregisteredVotedDocument ==
    Json(StateRecord(<<GenesisRecord, AliceBlockRecord>>, <<"bob">>,
                     <<"alice">>, <<>>))
\* a block whose stored hash was overwritten
CorruptedHashDocument ==
    Json(StateRecord(<<GenesisRecord,
                       [AliceBlockRecord EXCEPT !.hash = <<"corrupted_hash">>]>>,
                     <<"alice">>, <<"alice">>, <<>>))
\* a chain without blocks
EmptyChainDocument == Json(StateRecord(<<>>, <<>>, <<>>, <<>>))
\* a pending vote whose voter is not listed as voted
PendingUnmarkedDocument ==
    Json(StateRecord(<<GenesisRecord>>, <<"alice">>, <<>>, <<AliceVoteRecord>>))
\* a sealed vote whose voter is not listed as voted
SealedUnmarkedDocument ==
    Json(StateRecord(<<GenesisRecord, AliceBlockRecord>>, <<"alice">>, <<>>,
                     <<>>))
\* a voter listed as voted without any vote
VotedNoVoteDocument ==
    Json(StateRecord(<<GenesisRecord>>, <<"alice">>, <<"alice">>, <<>>))

FileDocuments ==
    {NoFile, NotJson, FreshDocument, BlankHashDocument, MissingSectionDocument,
     BadVoteDocument, BadBlockDocument, UnregisteredVotedDocument,
     CorruptedHashDocument, EmptyChainDocument, PendingUnmarkedDocument,
     SealedUnmarkedDocument, VotedNoVoteDocument}

\* the documents save_state may write in the current state
OwnDocuments ==
    {Json(to_dict(registered_list, voted_list)) :
        registered_list \in Enumerations(registered),
        voted_list \in Enumerations(voted)}

Documents == FileDocuments \cup OwnDocuments

\* open() and json.load succeed and from_dict does not raise
Decodes(document) == document.kind = "json" /\ from_dict_ok(document.data)

\* a check of the loaded system that accepts every chain
loaded_blockchain_valid_Always(loaded) == TRUE

\* a check of the loaded system that asks for integrity_valid as well
loaded_blockchain_valid_AndIntegrity(loaded) ==
    /\ validate_system_integrity_of(loaded).blockchain_valid
    /\ validate_system_integrity_of(loaded).integrity_valid

\* validation_result.get('blockchain_valid', False) of the loaded system
loaded_blockchain_valid(loaded) ==
    validate_system_integrity_of(loaded).blockchain_valid

\* load_state that decodes the sections into the object itself, one after
\* the other, instead of into a new object
load_state_InPlace(document) ==
    /\ IF document.kind = "missing"
       THEN /\ result' = Outcome("load_state", FALSE, "FILE_NOT_FOUND")
            /\ UNCHANGED <<chain, registered, voted, pending_votes, admitted>>
       ELSE IF document.kind # "json"
       THEN /\ result' = Outcome("load_state", FALSE, "LOAD_ERROR")
            /\ UNCHANGED <<chain, registered, voted, pending_votes, admitted>>
       ELSE IF ~from_dict_ok(document.data)
       THEN /\ result' = Outcome("load_state", FALSE, "LOAD_ERROR")
            /\ chain' = IF /\ "blockchain" \in DOMAIN document.data
                           /\ blockchain_from_dict_ok(document.data.blockchain)
                        THEN blockchain_from_dict(document.data.blockchain)
                        ELSE chain
            /\ UNCHANGED <<registered, voted, pending_votes, admitted>>
       ELSE LET loaded == from_dict(document.data)
            IN  IF ~loaded_blockchain_valid(loaded)
                THEN /\ result' = Outcome("load_state", FALSE, "INVALID_BLOCKCHAIN")
                     /\ UNCHANGED <<chain, registered, voted, pending_votes,
                                    admitted>>
                ELSE /\ chain' = loaded.chain
                     /\ registered' = loaded.registered
                     /\ voted' = loaded.voted
                     /\ pending_votes' = loaded.pending_votes
                     /\ admitted' =
                           get_all_votes_of(loaded.chain) \o loaded.pending_votes
                     /\ result' = Outcome("load_state", TRUE, "")
    /\ UNCHANGED <<clock, tampered, calls>>

\* VotingSystem.load_state; after a successful load the history of admitted
\* votes is that of the adopted state
load_state(document) ==
    /\ IF document.kind = "missing"
       THEN /\ result' = Outcome("load_state", FALSE, "FILE_NOT_FOUND")
            /\ UNCHANGED <<chain, registered, voted, pending_votes, admitted>>
       ELSE IF ~Decodes(document)
       THEN /\ result' = Outcome("load_state", FALSE, "LOAD_ERROR")
            /\ UNCHANGED <<chain, registered, voted, pending_votes, admitted>>
       ELSE LET loaded == from_dict(document.data)
            IN  IF ~loaded_blockchain_valid(loaded)
                THEN /\ result' = Outcome("load_state", FALSE, "INVALID_BLOCKCHAIN")
                     /\ UNCHANGED <<chain, registered, voted, pending_votes,
                                    admitted>>
                ELSE /\ chain' = loaded.chain
                     /\ registered' = loaded.registered
                     /\ voted' = loaded.voted
                     /\ pending_votes' = loaded.pending_votes
                     /\ admitted' =
                           get_all_votes_of(loaded.chain) \o loaded.pending_votes
                     /\ result' = Outcome("load_state", TRUE, "")
    /\ UNCHANGED <<clock, tampered, calls>>

NextLoad == Next \/ \E document \in Documents : load_state(document)

SpecLoad == Init /\ [][NextLoad]_vars

(***************************************************************************)
(* The VoterManager used on its own: mark_as_voted called directly on      *)
(* voting_system.voter_manager, next to the VotingSystem operations.       *)
(***************************************************************************)
VoterManager_mark_as_voted(voter_id) ==
    /\ IF mark_as_voted_raises(voter_id)
       THEN /\ result' = Outcome("mark_as_voted", FALSE,
                                   mark_as_voted_error(voter_id))
            /\ UNCHANGED voted
       ELSE /\ voted' = mark_as_voted(voter_id)
            /\ result' = Outcome("mark_as_voted", TRUE, "")
    /\ UNCHANGED <<chain, registered, pending_votes, admitted, clock, tampered,
                   calls>>

NextRegistry ==
    NextLoad \/ \E voter_id \in IdInputs : VoterManager_mark_as_voted(voter_id)

SpecRegistry == Init /\ [][NextRegistry]_vars

(***************************************************************************)
(* Several threads calling one VotingSystem.  The class takes no lock, so  *)
(* the interpreter may switch threads between any two statements of        *)
(* cast_vote and of create_block_from_pending_votes; each statement below  *)
(* is one step of the calling thread.                                      *)
(***************************************************************************)
Returns(caller) == [calls EXCEPT ![caller] = Idle]

\* time.time() while calls overlap: the calls are taken to fall within one
\* reading of the clock
OverlapTimes == {clock}

\* the candidate each caller votes for
CandidateOf == [caller \in Callers |-> IF caller = "t1" THEN "A" ELSE "B"]

\* cast_vote, "if not self.voter_manager.is_registered(voter_id)"
cast_vote_check_registered(caller, voter_id, candidate) ==
    /\ calls[caller].pc = "idle"
    /\ IF ~is_registered(voter_id)
       THEN /\ result' = Outcome("cast_vote", FALSE, "UNREGISTERED_VOTER")
            /\ UNCHANGED calls
       ELSE /\ calls' = [calls EXCEPT ![caller] =
                           [Idle EXCEPT !.pc = "check_voted",
                                        !.voter_id = voter_id,
                                        !.candidate = candidate]]
            /\ UNCHANGED result
    /\ UNCHANGED <<chain, registered, voted, pending_votes, admitted, clock,
                   tampered>>

\* cast_vote, "if self.voter_manager.has_voted(voter_id)"
cast_vote_check_voted(caller) ==
    /\ calls[caller].pc = "check_voted"
    /\ IF has_voted(calls[caller].voter_id)
       THEN /\ result' = Outcome("cast_vote", FALSE, "ALREADY_VOTED")
            /\ calls' = Returns(caller)
       ELSE /\ calls' = [calls EXCEPT ![caller].pc = "append"]
            /\ UNCHANGED result
    /\ UNCHANGED <<chain, registered, voted, pending_votes, admitted, clock,
                   tampered>>

\* cast_vote, "vote = Vote.create_vote(...)" and "self.pending_votes.append(vote)"
cast_vote_append(caller, now) ==
    /\ calls[caller].pc = "append"
    /\ clock' = now
    /\ IF ~VoteDataValid(calls[caller].voter_id, calls[caller].candidate, now)
       THEN /\ result' = Outcome("cast_vote", FALSE, "INVALID_VOTE_DATA")
            /\ calls' = Returns(caller)
            /\ UNCHANGED pending_votes
       ELSE /\ pending_votes' =
                  Append(pending_votes,
                         create_vote(calls[caller].voter_id,
                                     calls[caller].candidate, now))
            /\ calls' = [calls EXCEPT ![caller].pc = "mark",
                                      ![caller].votes_for_block =
                                          <<create_vote(calls[caller].voter_id,
                                                        calls[caller].candidate,
                                                        now)>>]
            /\ UNCHANGED result
    /\ UNCHANGED <<chain, registered, voted, admitted, tampered>>

\* cast_vote, "self.voter_manager.mark_as_voted(voter_id)" and the return
cast_vote_mark(caller) ==
    /\ calls[caller].pc = "mark"
    /\ voted' = mark_as_voted(calls[caller].voter_id)
    /\ admitted' = admitted \o calls[caller].votes_for_block
    /\ result' = Outcome("cast_vote", TRUE, "")
    /\ calls' = Returns(caller)
    /\ UNCHANGED <<chain, registered, pending_votes, clock, tampered>>

\* create_block_from_pending_votes, "if not self.pending_votes"
create_block_check(caller) ==
    /\ calls[caller].pc = "idle"
    /\ IF no_pending_votes
       THEN /\ result' = Outcome("create_block", FALSE, "NO_PENDING_VOTES")
            /\ UNCHANGED calls
       ELSE /\ calls' = [calls EXCEPT ![caller] = [Idle EXCEPT !.pc = "copy"]]
            /\ UNCHANGED result
    /\ UNCHANGED <<chain, registered, voted, pending_votes, admitted, clock,
                   tampered>>

\* create_block_from_pending_votes, "votes_for_block = self.pending_votes.copy()"
create_block_copy(caller) ==
    /\ calls[caller].pc = "copy"
    /\ calls' = [calls EXCEPT ![caller].pc = "add_block",
                              ![caller].votes_for_block = votes_for_block]
    /\ UNCHANGED <<chain, registered, voted, pending_votes, result, admitted,
                   clock, tampered>>

\* create_block_from_pending_votes, "if self.blockchain.add_block(votes_for_block)"
create_block_add_block(caller, now) ==
    /\ calls[caller].pc = "add_block"
    /\ clock' = now
    /\ IF add_block_ok(calls[caller].votes_for_block, now)
       THEN /\ chain' = add_block(calls[caller].votes_for_block, now)
            /\ calls' = [calls EXCEPT ![caller].pc = "clear"]
            /\ UNCHANGED result
       ELSE /\ result' = Outcome("create_block", FALSE, "BLOCK_CREATION_FAILED")
            /\ calls' = Returns(caller)
            /\ UNCHANGED chain
    /\ UNCHANGED <<registered, voted, pending_votes, admitted, tampered>>

\* create_block_from_pending_votes, "self.pending_votes.clear()" and the return
create_block_clear(caller) ==
    /\ calls[caller].pc = "clear"
    /\ pending_votes' = <<>>
    /\ result' = Outcome("create_block", TRUE, "")
    /\ calls' = Returns(caller)
    /\ UNCHANGED <<chain, registered, voted, admitted, clock, tampered>>

NextThreads ==
    \/ \E voter_id \in VoterIds : register_voter(voter_id)
    \/ \E caller \in Callers, voter_id \in VoterIds :
          cast_vote_check_registered(caller, voter_id, CandidateOf[caller])
    \/ \E caller \in Callers : cast_vote_check_voted(caller)
    \/ \E caller \in Callers, now \in OverlapTimes : cast_vote_append(caller, now)
    \/ \E caller \in Callers : cast_vote_mark(caller)
    \/ \E caller \in Callers : create_block_check(caller)
    \/ \E caller \in Callers : create_block_copy(caller)
    \/ \E caller \in Callers, now \in OverlapTimes :
          create_block_add_block(caller, now)
    \/ \E caller \in Callers : create_block_clear(caller)

SpecThreads == Init /\ [][NextThreads]_vars

(***************************************************************************)
(* Direct mutation and load_state together: a corrupted instance whose      *)
(* state is replaced from a file.                                          *)
(***************************************************************************)
\* the files at hand: one saved by a new VotingSystem, and one with an
\* overwritten hash
RecoverDocuments == {FreshDocument, CorruptedHashDocument}

NextRecover ==
    NextTamper \/ \E document \in RecoverDocuments : load_state(document)

SpecRecover == Init /\ [][NextRecover]_vars

(***************************************************************************)
(* The Blockchain used on its own: add_block, get_latest_block and         *)
(* validate_chain called directly on voting_system.blockchain, as the      *)
(* tests of the Blockchain class do, next to the VotingSystem operations   *)
(* and to the direct mutations.  An argument of add_block is a Python      *)
(* value together with its type.                                           *)
(***************************************************************************)
PyStr(text) == [type |-> "str", value |-> text]
PyVote(vote) == [type |-> "Vote", value |-> vote]
PyList(items) == [type |-> "list", value |-> items]

\* a Vote built by the caller of add_block
DirectVote == [voter_id |-> "alice", candidate |-> "A", timestamp |-> 1]

\* the arguments of add_block: the two of test_add_block_invalid_votes, a
\* list whose second item is no Vote, the empty list and a list of one Vote
AddBlockInputs ==
    {PyStr("not a list"),
     PyList(<<PyStr("not a vote object")>>),
     PyList(<<PyVote(DirectVote), PyStr("not a vote object")>>),
     PyList(<<>>),
     PyList(<<PyVote(DirectVote)>>)}

\* the Vote objects of a list of Votes
VotesOf(votes) == [i \in 1 .. Len(votes.value) |-> votes.value[i].value]

\* an add_block that refuses the empty list as well
isinstance_checks_NonEmpty(votes) ==
    /\ votes.type = "list"
    /\ votes.value # <<>>
    /\ \A i \in 1 .. Len(votes.value) : votes.value[i].type = "Vote"

\* Blockchain.add_block: isinstance(votes, list) and isinstance(vote, Vote)
\* for every item
isinstance_checks(votes) ==
    /\ votes.type = "list"
    /\ \A i \in 1 .. Len(votes.value) : votes.value[i].type = "Vote"

\* Blockchain.add_block called directly.  A block appended this way did not
\* come from the VotingSystem; as with the direct mutations, a behaviour
\* holds at most one such change, while a call that fails is possible in
\* every state.
Blockchain_add_block(votes, now) ==
    /\ tampered => ~(isinstance_checks(votes) /\ add_block_ok(VotesOf(votes), now))
    /\ IF ~isinstance_checks(votes)
       THEN /\ result' = Outcome("add_block", FALSE, "")
            /\ UNCHANGED <<chain, clock, tampered>>
       ELSE IF add_block_ok(VotesOf(votes), now)
       THEN /\ chain' = add_block(VotesOf(votes), now)
            /\ clock' = now
            /\ tampered' = TRUE
            /\ result' = Outcome("add_block", TRUE, "")
       ELSE /\ result' = Outcome("add_block", FALSE, "")
            /\ clock' = IF chain = <<>> THEN clock ELSE now
            /\ UNCHANGED <<chain, tampered>>
    /\ UNCHANGED <<registered, voted, pending_votes, admitted, calls>>

\* a get_latest_block that never raises
get_latest_block_raises_Never == FALSE

\* Blockchain.get_latest_block raises IndexError
get_latest_block_raises == chain = <<>>

\* Blockchain.get_latest_block called directly
Blockchain_get_latest_block ==
    /\ result' = IF get_latest_block_raises
                 THEN Outcome("get_latest_block", FALSE, "IndexError")
                 ELSE Outcome("get_latest_block", TRUE, "")
    /\ UNCHANGED <<chain, registered, voted, pending_votes, admitted, clock,
                   tampered, calls>>

\* a validate_chain that stores the digest it computed in each block
Blockchain_validate_chain_Repairing ==
    /\ result' = Outcome("validate_chain", validate_chain, "")
    /\ chain' = [i \in 1 .. Len(chain) |->
                   [chain[i] EXCEPT !.hash = calculate_hash(chain[i])]]
    /\ UNCHANGED <<registered, voted, pending_votes, admitted, clock, tampered,
                   calls>>

\* Blockchain.validate_chain called directly
Blockchain_validate_chain ==
    /\ result' = Outcome("validate_chain", validate_chain, "")
    /\ UNCHANGED <<chain, registered, voted, pending_votes, admitted, clock,
                   tampered, calls>>

NextLedger ==
    \/ NextTamper
    \/ \E votes \in AddBlockInputs, now \in Times : Blockchain_add_block(votes, now)
    \/ Blockchain_get_latest_block
    \/ Blockchain_validate_chain

SpecLedger == Init /\ [][NextLedger]_vars

(***************************************************************************)
(* The queries, called between the VotingSystem operations and after the   *)
(* direct mutations.  A query step records what the call returned (for a   *)
(* dictionary its success and error entries) and writes nothing else.      *)
(***************************************************************************)
\* a lookup that finds no pending vote
pending_votes_by_None(voter_id) == <<>>

\* [vote for vote in self.pending_votes if vote.voter_id == voter_id]
pending_votes_by(voter_id) ==
    SelectSeq(pending_votes, LAMBDA vote : vote.voter_id = voter_id)

\* [vote for vote in all_votes if vote.voter_id == voter_id]
voter_votes(voter_id) ==
    SelectSeq(get_all_votes, LAMBDA vote : vote.voter_id = voter_id)

\* VotingSystem.get_vote_by_voter: the dictionary it returns
get_vote_by_voter(voter_id) ==
    IF voter_votes(voter_id) = <<>>
    THEN IF is_registered(voter_id)
         THEN IF has_voted(voter_id)
              THEN IF pending_votes_by(voter_id) # <<>>
                   THEN [success |-> TRUE, voter_id |-> voter_id,
                         has_voted |-> TRUE,
                         vote |-> vote_to_dict(pending_votes_by(voter_id)[1]),
                         status |-> "pending"]
                   ELSE [success |-> FALSE, error |-> "VOTE_NOT_FOUND"]
              ELSE [success |-> TRUE, voter_id |-> voter_id,
                    has_voted |-> FALSE, status |-> "registered_not_voted"]
         ELSE [success |-> FALSE, error |-> "VOTER_NOT_REGISTERED"]
    ELSE IF Len(voter_votes(voter_id)) > 1
    THEN [success |-> FALSE, error |-> "MULTIPLE_VOTES_FOUND"]
    ELSE [success |-> TRUE, voter_id |-> voter_id, has_voted |-> TRUE,
          vote |-> vote_to_dict(voter_votes(voter_id)[1]),
          status |-> "voted"]

\* the value None
None == [type |-> "NoneType"]

\* Blockchain.get_block_by_index
get_block_by_index(index) ==
    IF 0 <= index /\ index < Len(chain) THEN chain[index + 1] ELSE None

\* the indexes asked for: one below, those of the chain, one above
BlockIndexes == -1 .. Len(chain)

Block_validate_hash(i) ==
    /\ result' = Outcome("validate_hash", validate_hash(chain[i]), "")
    /\ UNCHANGED <<chain, registered, voted, pending_votes, admitted, clock,
                   tampered, calls>>

Blockchain_get_all_votes ==
    /\ result' = Outcome("get_all_votes", TRUE, "")
    /\ UNCHANGED <<chain, registered, voted, pending_votes, admitted, clock,
                   tampered, calls>>

Blockchain_get_block_by_index(index) ==
    /\ result' = Outcome("get_block_by_index", get_block_by_index(index) # None, "")
    /\ UNCHANGED <<chain, registered, voted, pending_votes, admitted, clock,
                   tampered, calls>>

VoterManager_is_registered(voter_id) ==
    /\ result' = Outcome("is_registered", is_registered(voter_id), "")
    /\ UNCHANGED <<chain, registered, voted, pending_votes, admitted, clock,
                   tampered, calls>>

VoterManager_has_voted(voter_id) ==
    /\ result' = Outcome("has_voted", has_voted(voter_id), "")
    /\ UNCHANGED <<chain, registered, voted, pending_votes, admitted, clock,
                   tampered, calls>>

VotingSystem_validate_system_integrity ==
    /\ result' = Outcome("validate_system_integrity",
                         validate_system_integrity.success, "")
    /\ UNCHANGED <<chain, registered, voted, pending_votes, admitted, clock,
                   tampered, calls>>

VotingSystem_get_results ==
    /\ result' = Outcome("get_results", get_results.success, "")
    /\ UNCHANGED <<chain, registered, voted, pending_votes, admitted, clock,
                   tampered, calls>>

VotingSystem_get_vote_by_voter(voter_id) ==
    /\ result' =
          Outcome("get_vote_by_voter", get_vote_by_voter(voter_id).success,
                  IF get_vote_by_voter(voter_id).success
                  THEN "" ELSE get_vote_by_voter(voter_id).error)
    /\ UNCHANGED <<chain, registered, voted, pending_votes, admitted, clock,
                   tampered, calls>>

Query ==
    \/ \E i \in 1 .. Len(chain) : Block_validate_hash(i)
    \/ Blockchain_validate_chain
    \/ Blockchain_get_all_votes
    \/ \E index \in BlockIndexes : Blockchain_get_block_by_index(index)
    \/ \E voter_id \in IdInputs : VoterManager_is_registered(voter_id)
    \/ \E voter_id \in IdInputs : VoterManager_has_voted(voter_id)
    \/ VotingSystem_validate_system_integrity
    \/ VotingSystem_get_results
    \/ \E voter_id \in IdInputs : VotingSystem_get_vote_by_voter(voter_id)

NextQueries == NextTamper \/ Query

SpecQueries == Init /\ [][NextQueries]_vars

(***************************************************************************)
(* Properties                                                              *)
(***************************************************************************)
\* every vote that counts: the sealed ones, then the pending ones
AllCountedVotes == get_all_votes \o pending_votes

\* C1: once a cast_vote for a voter id has succeeded, every later cast_vote
\* for that id, whatever the candidate and whatever was done in between,
\* fails with ALREADY_VOTED and leaves pending_votes exactly as it was.
C1_RepeatedVoteRejected ==
    [][\A voter_id \in IdInputs, candidate \in CandidateInputs, now \in Times :
          (voter_id \in VoterIdsOf(admitted) /\ cast_vote(voter_id, candidate, now))
              => /\ result' = Outcome("cast_vote", FALSE, "ALREADY_VOTED")
                 /\ pending_votes' = pending_votes]_vars

\* a repeated vote was rejected after a block was sealed and while another
\* vote is pending
C1_Witness ==
    /\ result = Outcome("cast_vote", FALSE, "ALREADY_VOTED")
    /\ Len(chain) >= 2
    /\ pending_votes # <<>>

\* C2: over all sealed blocks plus the pending votes, no voter id occurs in
\* more than one vote.
C2_OneVotePerVoter ==
    \A i, j \in 1 .. Len(AllCountedVotes) :
        AllCountedVotes[i].voter_id = AllCountedVotes[j].voter_id => i = j

\* two voters have voted, one vote is sealed and one is pending
C2_Witness ==
    /\ Cardinality(voted) = 2
    /\ get_all_votes # <<>>
    /\ pending_votes # <<>>

\* C3: every appended block has the index after the previous latest block's
\* and that block's hash as its previous_hash, and validate_chain is true
\* in every state the public operations reach.
C3_ChainLinkage ==
    /\ []validate_chain
    /\ [][Len(chain') > Len(chain)
            => /\ Len(chain') = Len(chain) + 1
               /\ chain'[Len(chain')].index = chain[Len(chain)].index + 1
               /\ chain'[Len(chain')].previous_hash = chain[Len(chain)].hash]_vars

\* two blocks were appended after genesis
C3_Witness ==
    /\ Len(chain) = 3
    /\ result = Outcome("create_block", TRUE, "")

\* C4: on a valid chain of at least two blocks, writing a different value
\* over the stored hash, the previous_hash or the index of any one block
\* (genesis and the last block included), with or without recomputing that
\* block's own hash, makes validate_chain false.
C4_TamperDetected ==
    [][(~tampered /\ tampered' /\ validate_chain /\ Len(chain) >= 2
            /\ Len(chain') = Len(chain))
          => ~validate_chain']_vars

\* the last of three blocks was given another previous_hash and its own hash
\* was recomputed
C4_Witness ==
    /\ tampered
    /\ Len(chain) = 3
    /\ validate_hash(chain[3])
    /\ chain[3].previous_hash # chain[2].hash
    /\ chain[3].index = 2

\* C5: the voter ids of the sealed votes together with those of the pending
\* votes are exactly the voted set, and validate_system_integrity reports
\* blockchain_valid, integrity_valid and no issue.
C5_CrossConsistency ==
    /\ VoterIdsOf(get_all_votes) \cup VoterIdsOf(pending_votes) = voted
    /\ validate_system_integrity.blockchain_valid
    /\ validate_system_integrity.integrity_valid
    /\ validate_system_integrity.issues = <<>>

\* every voter has voted and two blocks were sealed
C5_Witness ==
    /\ voted = VoterIds
    /\ validate_system_integrity.total_blocks = 3
    /\ validate_system_integrity.total_votes = 2

\* the number of places that hold the vote: positions of the pending
\* sequence and positions of the blocks' vote sequences
Occurrences(vote) ==
    Cardinality({i \in 1 .. Len(pending_votes) : pending_votes[i] = vote})
    + Cardinality({p \in UNION {{<<b, i>> : i \in 1 .. Len(chain[b].votes)} :
                                 b \in 1 .. Len(chain)} :
                       chain[p[1]].votes[p[2]] = vote})

\* C6: every admitted vote is held in exactly one place, the pending
\* sequence or one sealed block, and a vote in a sealed block stays in that
\* block, at its position, in every later state.
C6_MoveSemantics ==
    /\ [](\A k \in 1 .. Len(admitted) : Occurrences(admitted[k]) = 1)
    /\ [][\A b \in 1 .. Len(chain) :
            /\ b <= Len(chain')
            /\ chain'[b].votes = chain[b].votes]_vars

\* one admitted vote is sealed, another one is pending
C6_Witness ==
    /\ Len(admitted) = 2
    /\ Len(get_all_votes) = 1
    /\ Len(pending_votes) = 1

\* C7: create_block_from_pending_votes with n >= 1 pending votes succeeds,
\* appends exactly one block whose votes are the whole pending sequence in
\* order, empties pending_votes and leaves the registry alone.
C7_SealMovesAllPending ==
    [][\A now \in Times :
          (pending_votes # <<>> /\ create_block_from_pending_votes(now))
              => /\ result' = Outcome("create_block", TRUE, "")
                 /\ Len(chain') = Len(chain) + 1
                 /\ SubSeq(chain', 1, Len(chain)) = chain
                 /\ chain'[Len(chain')].votes = pending_votes
                 /\ pending_votes' = <<>>
                 /\ UNCHANGED <<registered, voted>>]_vars

\* a block holding two votes was sealed
C7_Witness ==
    /\ result = Outcome("create_block", TRUE, "")
    /\ Len(chain) = 2
    /\ Len(chain[2].votes) = 2
    /\ pending_votes = <<>>

\* C8: create_block_from_pending_votes with nothing pending fails with
\* NO_PENDING_VOTES and changes neither the chain, the registry nor
\* pending_votes, in the fresh state and in every later one.
C8_EmptySealRejected ==
    [][\A now \in Times :
          (pending_votes = <<>> /\ create_block_from_pending_votes(now))
              => /\ result' = Outcome("create_block", FALSE, "NO_PENDING_VOTES")
                 /\ UNCHANGED <<chain, registered, voted, pending_votes>>]_vars

\* an empty seal was rejected after a block had been sealed
C8_Witness ==
    /\ result = Outcome("create_block", FALSE, "NO_PENDING_VOTES")
    /\ Len(chain) = 2

\* add_block cannot append: there is no latest block, or the next index is
\* negative
AppendFails == chain = <<>> \/ chain[Len(chain)].index + 1 < 0

\* C9: when add_block fails inside create_block_from_pending_votes, the
\* operation returns a failure, pending_votes keeps the same votes in the
\* same order and the chain is unchanged.
C9_FailedSealKeepsPending ==
    [][\A now \in Times :
          (pending_votes # <<>> /\ AppendFails
              /\ create_block_from_pending_votes(now))
              => /\ result'.success = FALSE
                 /\ result'.error = "BLOCK_CREATION_FAILED"
                 /\ UNCHANGED <<chain, pending_votes, registered, voted>>]_vars

\* a seal failed on a chain whose latest index was made negative, with two
\* votes pending
C9_Witness ==
    /\ result = Outcome("create_block", FALSE, "BLOCK_CREATION_FAILED")
    /\ chain # <<>>
    /\ Len(pending_votes) = 2

\* C10: register_voter succeeds exactly for a non-empty id that is not yet
\* registered and cast_vote exactly for a registered id that has not voted
\* with a non-empty candidate; a failure returns one of the typed errors
\* and changes neither chain, registry nor pending_votes; a success adds the
\* one id to registered, or appends the one vote and marks the id, together.
C10_FailuresChangeNothing ==
    [][/\ \A voter_id \in IdInputs :
            register_voter(voter_id)
              => IF voter_id # "" /\ voter_id \notin registered
                 THEN /\ result' = Outcome("register_voter", TRUE, "")
                      /\ registered' = registered \cup {voter_id}
                      /\ UNCHANGED <<chain, voted, pending_votes>>
                 ELSE /\ result'.success = FALSE
                      /\ result'.error \in {"INVALID_VOTER_ID", "DUPLICATE_VOTER"}
                      /\ UNCHANGED <<chain, registered, voted, pending_votes>>
       /\ \A voter_id \in IdInputs, candidate \in CandidateInputs, now \in Times :
            cast_vote(voter_id, candidate, now)
              => IF /\ voter_id # ""
                    /\ voter_id \in registered
                    /\ voter_id \notin voted
                    /\ candidate # ""
                 THEN /\ result' = Outcome("cast_vote", TRUE, "")
                      /\ pending_votes' =
                            Append(pending_votes,
                                   [voter_id |-> voter_id, candidate |-> candidate,
                                    timestamp |-> now])
                      /\ voted' = voted \cup {voter_id}
                      /\ UNCHANGED <<chain, registered>>
                 ELSE /\ result'.success = FALSE
                      /\ result'.error \in {"UNREGISTERED_VOTER", "ALREADY_VOTED",
                                            "INVALID_VOTE_DATA"}
                      /\ UNCHANGED <<chain, registered, voted, pending_votes>>]_vars

\* a vote with an empty candidate was refused while the other voter's vote
\* is pending
C10_Witness ==
    /\ result = Outcome("cast_vote", FALSE, "INVALID_VOTE_DATA")
    /\ Cardinality(registered) = 2
    /\ Cardinality(voted) = 1
    /\ Len(pending_votes) = 1

\* the state load_state decodes from a document that decodes
Decoded(document) == from_dict(document.data)

\* C11: load_state validates the decoded chain before adopting it: a document
\* that decodes to a chain failing validate_chain is refused with
\* INVALID_BLOCKCHAIN and chain, registry and pending_votes stay as they were;
\* a load succeeds only for a document whose decoded chain validates, and
\* that chain is the one adopted.
C11_LoadRevalidates ==
    [][\A document \in Documents :
          (result'.op = "load_state" /\ load_state(document))
            => /\ (Decodes(document)
                     /\ ~validate_chain_of(Decoded(document).chain))
                  => /\ result' = Outcome("load_state", FALSE, "INVALID_BLOCKCHAIN")
                     /\ UNCHANGED <<chain, registered, voted, pending_votes>>
               /\ result'.success
                  => /\ Decodes(document)
                     /\ validate_chain_of(Decoded(document).chain)
                     /\ chain' = Decoded(document).chain
                     /\ validate_chain_of(chain')]_vars

\* a load was refused for its invalid chain while votes were sealed and pending
C11_Witness ==
    /\ result = Outcome("load_state", FALSE, "INVALID_BLOCKCHAIN")
    /\ Len(chain) > 1
    /\ pending_votes # <<>>

LoadErrors == {"FILE_NOT_FOUND", "LOAD_ERROR", "INVALID_BLOCKCHAIN"}

\* C12: every load_state either succeeds and replaces chain, registry and
\* pending_votes together by the decoded ones, or fails with a typed error
\* and changes none of them, whatever is wrong with the document; in the
\* state left by a failed load, register_voter, cast_vote and
\* create_block_from_pending_votes succeed as they would otherwise.
C12_LoadAllOrNothing ==
    [][/\ \A document \in Documents :
            (result'.op = "load_state" /\ load_state(document))
              => IF result'.success
                 THEN /\ Decodes(document)
                      /\ chain' = Decoded(document).chain
                      /\ registered' = Decoded(document).registered
                      /\ voted' = Decoded(document).voted
                      /\ pending_votes' = Decoded(document).pending_votes
                 ELSE /\ result'.error \in LoadErrors
                      /\ UNCHANGED <<chain, registered, voted, pending_votes>>
       /\ \A document \in FileDocuments \ {FreshDocument, BlankHashDocument,
                                           PendingUnmarkedDocument,
                                           SealedUnmarkedDocument,
                                           VotedNoVoteDocument} :
            (result'.op = "load_state" /\ load_state(document))
              => /\ ~result'.success
                 /\ UNCHANGED <<chain, registered, voted, pending_votes>>
       /\ (result.op = "load_state" /\ ~result.success
              /\ result'.op # "load_state")
          => /\ \A voter_id \in VoterIds \ registered :
                  register_voter(voter_id)
                    => result'.success /\ registered' = registered \cup {voter_id}
             /\ \A voter_id \in registered \ voted, candidate \in Candidates,
                   now \in Times :
                  cast_vote(voter_id, candidate, now)
                    => /\ result'.success
                       /\ voted' = voted \cup {voter_id}
                       /\ Len(pending_votes') = Len(pending_votes) + 1
             /\ \A now \in Times :
                  (create_block_from_pending_votes(now) /\ pending_votes # <<>>)
                    => /\ result'.success
                       /\ Len(chain') = Len(chain) + 1
                       /\ pending_votes' = <<>>]_vars

\* a document with a voted id that is not registered was refused while the
\* system held sealed and pending votes
C12_Witness ==
    /\ result = Outcome("load_state", FALSE, "LOAD_ERROR")
    /\ Len(chain) > 1
    /\ pending_votes # <<>>
    /\ registered = VoterIds

\* C13: in every state, whatever order to_dict lists the two id sets in,
\* from_dict of the saved document does not raise and gives a system with the
\* same registered and voted sets, the same pending votes in the same order,
\* the same number of blocks, the same votes and hashes in each block, and
\* the same validate_system_integrity result.
C13_RoundTrip ==
    \A registered_list \in Enumerations(registered),
       voted_list \in Enumerations(voted) :
        LET data == to_dict(registered_list, voted_list)
            loaded == from_dict(data)
        IN  /\ from_dict_ok(data)
            /\ loaded.registered = registered
            /\ loaded.voted = voted
            /\ loaded.pending_votes = pending_votes
            /\ Len(loaded.chain) = Len(chain)
            /\ \A i \in 1 .. Len(chain) :
                  /\ loaded.chain[i].votes = chain[i].votes
                  /\ loaded.chain[i].hash = chain[i].hash
                  /\ loaded.chain[i] = chain[i]
            /\ validate_system_integrity_of(loaded) = validate_system_integrity

\* a state with sealed and pending votes is saved with the ids listed in
\* two different orders and read back
C13_Witness ==
    /\ Len(chain) > 1
    /\ pending_votes # <<>>
    /\ voted = VoterIds
    /\ from_dict(to_dict(<<"alice", "bob">>, <<"bob", "alice">>)) = self

\* the id was registered by the step that led here, as the only id so far
JustRegistered(voter_id) ==
    /\ result = Outcome("register_voter", TRUE, "")
    /\ registered = {voter_id}
    /\ voted = {}

\* C14 as stated: the cast_vote issued right after the id's registration,
\* which is the first one for the id, succeeds whatever the candidate is.
C14_FirstVoteAlwaysSucceeds ==
    [][\A voter_id \in VoterIds, candidate \in CandidateInputs, now \in Times :
          (JustRegistered(voter_id) /\ cast_vote(voter_id, candidate, now))
            => /\ result'.success
               /\ voted' = voted \cup {voter_id}
               /\ Len(pending_votes') = Len(pending_votes) + 1]_vars

\* C14, amended: a cast_vote for a registered id that has not voted, with a
\* non-empty candidate, succeeds: it appends exactly the one vote for that id
\* to pending_votes and marks the id as voted; with an empty candidate it
\* fails with INVALID_VOTE_DATA and the id can still vote.
C14_FirstValidVoteSucceeds ==
    [][\A voter_id \in registered \ voted, candidate \in CandidateInputs,
          now \in Times :
          cast_vote(voter_id, candidate, now)
            => IF candidate # ""
               THEN /\ result' = Outcome("cast_vote", TRUE, "")
                    /\ pending_votes' =
                          Append(pending_votes,
                                 [voter_id |-> voter_id, candidate |-> candidate,
                                  timestamp |-> now])
                    /\ voted' = voted \cup {voter_id}
               ELSE /\ result' = Outcome("cast_vote", FALSE, "INVALID_VOTE_DATA")
                    /\ UNCHANGED <<pending_votes, voted>>]_vars

\* the first vote of a just registered id was accepted
C14_Witness ==
    /\ result = Outcome("cast_vote", TRUE, "")
    /\ Len(pending_votes) = 1
    /\ Cardinality(registered) = 1
    /\ voted = registered
    /\ Len(chain) = 1

\* C15 as stated: the issue list of validate_system_integrity is empty
\* exactly when the voter ids of the sealed votes together with those of the
\* pending votes are the voted set.
C15_EveryDivergenceReported ==
    (validate_system_integrity.issues = <<>>)
        <=> (VoterIdsOf(get_all_votes) \cup VoterIdsOf(pending_votes) = voted)

\* C16 as stated: the integrity verdict of validate_system_integrity is true
\* exactly when validate_chain is true and the issue list is empty.
C16_VerdictIncludesStructure ==
    validate_system_integrity.integrity_valid
        <=> (validate_chain /\ validate_system_integrity.issues = <<>>)

\* the four ledger invariants, each stated on its own
LedgerHasGenesis ==
    /\ chain # <<>>
    /\ chain[1].index = 0
    /\ chain[1].previous_hash = <<"0">>
    /\ chain[1].hash = calculate_hash(chain[1])

LedgerLinked ==
    \A i \in 2 .. Len(chain) : chain[i].previous_hash = chain[i - 1].hash

LedgerHashesValid ==
    \A i \in 1 .. Len(chain) : chain[i].hash = calculate_hash(chain[i])

LedgerIndicesSequential ==
    \A i \in 1 .. Len(chain) : chain[i].index = i - 1

\* C17: validate_chain is true exactly when the chain is non-empty with a
\* genesis block of index 0, previous_hash "0" and a valid hash, every later
\* block's previous_hash is the hash of the block before it, every stored
\* hash is the digest of its block, and the indexes are 0, 1, 2, ...; when
\* any one of the four fails, validate_chain is false.
C17_ValidateIsTheFourInvariants ==
    /\ validate_chain
          <=> (LedgerHasGenesis /\ LedgerLinked /\ LedgerHashesValid
                 /\ LedgerIndicesSequential)
    /\ ~LedgerHasGenesis => ~validate_chain
    /\ (chain # <<>> /\ ~LedgerLinked) => ~validate_chain
    /\ (chain # <<>> /\ ~LedgerHashesValid) => ~validate_chain
    /\ (chain # <<>> /\ ~LedgerIndicesSequential) => ~validate_chain

\* only the indexes are wrong: a block past the genesis got another index
\* and its hash was recomputed
C17_Witness ==
    /\ tampered
    /\ LedgerHasGenesis
    /\ LedgerLinked
    /\ LedgerHashesValid
    /\ ~LedgerIndicesSequential
    /\ ~validate_chain

\* the places <<block, position>> of the sealed votes for a candidate
SealedVotesFor(candidate) ==
    {place \in (1 .. Len(chain)) \X (1 .. Len(AllCountedVotes)) :
        /\ place[2] <= Len(chain[place[1]].votes)
        /\ chain[place[1]].votes[place[2]].candidate = candidate}

\* C18: get_results counts the sealed votes only: the candidates listed are
\* those with at least one sealed vote, each with the number of its sealed
\* votes; total_votes is the sum of the counts and the number of sealed
\* votes; the pending votes add to neither.
C18_TallyCountsSealedOnly ==
    LET results == get_results
        sealed == UNION {SealedVotesFor(c) : c \in Candidates}
    IN  /\ DOMAIN results.vote_counts =
              {c \in Candidates : SealedVotesFor(c) # {}}
        /\ \A c \in DOMAIN results.vote_counts :
              results.vote_counts[c] = Cardinality(SealedVotesFor(c))
        /\ results.total_votes = Cardinality(sealed)
        /\ results.total_votes = Len(get_all_votes)
        /\ results.total_votes + Len(pending_votes) = Len(AllCountedVotes)
        /\ results.pending_votes = Len(pending_votes)

\* one vote is sealed and another, for the same candidate, is pending
C18_Witness ==
    /\ Len(chain) = 2
    /\ Len(chain[2].votes) = 1
    /\ Len(pending_votes) = 1
    /\ pending_votes[1].candidate = chain[2].votes[1].candidate
    /\ get_results.vote_counts = (pending_votes[1].candidate :> 1)

\* C19: in every state, also after a direct mutation of the chain,
\* get_results succeeds and its blockchain_valid, integrity_valid and
\* validation_issues are those validate_system_integrity returns in that
\* state; when a block's stored hash is not its digest, blockchain_valid is
\* false and the counts of the sealed votes are returned all the same.
C19_ResultsCarryValidation ==
    LET results == get_results
        validation == validate_system_integrity
    IN  /\ results.success
        /\ results.blockchain_valid = validation.blockchain_valid
        /\ results.integrity_valid = validation.integrity_valid
        /\ results.validation_issues = validation.issues
        /\ (\E i \in 1 .. Len(chain) : ~validate_hash(chain[i]))
              => /\ ~results.blockchain_valid
                 /\ results.vote_counts
                       = count_votes(get_all_votes, Len(get_all_votes))
                 /\ results.total_votes = Len(get_all_votes)

\* the stored hash of a block holding a vote was overwritten
C19_Witness ==
    /\ tampered
    /\ Len(chain) > 1
    /\ chain[2].votes # <<>>
    /\ chain[2].hash = <<"corrupted_hash">>
    /\ ~get_results.blockchain_valid
    /\ get_results.total_votes > 0

\* C20 as stated: in every step the registered set and the voted set only
\* grow, and a voted id is a registered one.
C20_LifecycleOneDirectional ==
    /\ [](voted \subseteq registered)
    /\ [][registered \subseteq registered' /\ voted \subseteq voted']_vars

\* C20, amended: a voted id is always a registered one; in every step of
\* register_voter, cast_vote, create_block_from_pending_votes and of a
\* load_state that fails, the registered set and the voted set only grow and
\* an id that becomes voted was registered before the step; a load_state
\* that succeeds replaces both sets by those of the document.
C20_LifecycleBetweenLoads ==
    /\ [](voted \subseteq registered)
    /\ [][IF result'.op = "load_state" /\ result'.success
          THEN \E document \in Documents :
                  /\ Decodes(document)
                  /\ registered' = Decoded(document).registered
                  /\ voted' = Decoded(document).voted
          ELSE /\ registered \subseteq registered'
               /\ voted \subseteq voted'
               /\ (voted' \ voted) \subseteq registered]_vars

\* both ids have gone from unregistered to registered to voted, and a load
\* was refused on the way
C20_Witness ==
    /\ voted = VoterIds
    /\ registered = VoterIds
    /\ result.op = "load_state"
    /\ ~result.success
    /\ Len(chain) = 2
    /\ Len(chain[2].votes) = 2

\* the document's voter_manager section lists a voted id that it does not
\* list as registered
ListsUnregisteredVoted(document) ==
    /\ document.kind = "json"
    /\ "voter_manager" \in DOMAIN document.data
    /\ {"registered_voters", "voted_voters"}
          \subseteq DOMAIN document.data.voter_manager
    /\ ~(IdSet(document.data.voter_manager.voted_voters)
            \subseteq IdSet(document.data.voter_manager.registered_voters))

\* C21: in every state the voted set is a subset of the registered set;
\* mark_as_voted changes the voted set only for a registered id; a document
\* listing a voted id that is not registered does not decode, and load_state
\* of it fails and leaves the registry as it was.
C21_VotedSubsetOfRegistered ==
    /\ [](/\ voted \subseteq registered
          /\ \A document \in Documents :
                ListsUnregisteredVoted(document) => ~Decodes(document))
    /\ [][/\ \A voter_id \in IdInputs :
               VoterManager_mark_as_voted(voter_id)
                 => IF voter_id \in registered
                    THEN voted' = voted \cup {voter_id}
                    ELSE ~result'.success /\ voted' = voted
          /\ load_state(UnregisteredVotedDocument)
               => /\ result' = Outcome("load_state", FALSE, "LOAD_ERROR")
                  /\ UNCHANGED <<registered, voted>>]_vars

\* mark_as_voted was refused for an id that is not registered, while another
\* id is registered and voted
C21_Witness ==
    /\ result = Outcome("mark_as_voted", FALSE,
                        "Voter must be registered before marking as voted")
    /\ Cardinality(registered) = 1
    /\ voted = registered

\* C22: across every step of register_voter, cast_vote and
\* create_block_from_pending_votes the chain before the step is a prefix of
\* the chain after it, and the chain grows by at most one block.
C22_AppendOnly ==
    [][/\ Len(chain') >= Len(chain)
       /\ Len(chain') <= Len(chain) + 1
       /\ SubSeq(chain', 1, Len(chain)) = chain]_vars

\* a second block of votes was appended behind the first
C22_Witness ==
    /\ result = Outcome("create_block", TRUE, "")
    /\ Len(chain) = 3
    /\ chain[2].votes # <<>>
    /\ chain[3].votes # <<>>

\* the positions of the id's votes among the sealed and the pending votes
VotesBy(voter_id) ==
    {i \in 1 .. Len(AllCountedVotes) : AllCountedVotes[i].voter_id = voter_id}

\* C23 as stated: with several callers calling cast_vote for the same id at
\* the same time, at most one of the calls succeeds and at most one vote of
\* the id is ever staged.
C23_CastVoteDoesNotRace ==
    \A voter_id \in VoterIds :
        /\ Cardinality({i \in 1 .. Len(admitted) :
                           admitted[i].voter_id = voter_id}) <= 1
        /\ Cardinality(VotesBy(voter_id)) <= 1

\* C24 as stated: with a cast_vote overlapping a
\* create_block_from_pending_votes, every vote of a successful cast_vote is
\* among the pending or the sealed votes, and every voter marked as voted by
\* a finished call has a vote there.
C24_SealLosesNoVote ==
    /\ \A i \in 1 .. Len(admitted) :
          \E j \in 1 .. Len(AllCountedVotes) : AllCountedVotes[j] = admitted[i]
    /\ \A voter_id \in voted : VotesBy(voter_id) # {}

\* C25 as stated: a state has one serialization: all documents to_dict may
\* produce for the same chain, registered set, voted set and pending_votes
\* are the same document.
C25_SerializationCanonical ==
    \A first \in OwnDocuments, second \in OwnDocuments : first = second

\* the four content fields of a block
Content(block) ==
    <<block.index, block.timestamp, block.votes, block.previous_hash>>

\* the blocks that differ from the given one in exactly one content field,
\* in one field of one vote, or in the order of the votes
Variants(block) ==
    {[block EXCEPT !.index = @ + 1], [block EXCEPT !.timestamp = @ + 1],
     [block EXCEPT !.previous_hash = <<"another_hash">>]}
    \cup {[block EXCEPT !.votes[i].voter_id = "carol"] :
             i \in 1 .. Len(block.votes)}
    \cup {[block EXCEPT !.votes[i].candidate = "C"] :
             i \in 1 .. Len(block.votes)}
    \cup {[block EXCEPT !.votes[i].timestamp = @ + 1] :
             i \in 1 .. Len(block.votes)}
    \cup {[block EXCEPT !.votes = <<block.votes[2], block.votes[1]>>] :
             i \in {2} \cap {Len(block.votes)}}

C27_AdmissionOrderPreserved ==
    /\ get_all_votes \o pending_votes = admitted
    /\ \A i \in 1 .. Len(admitted), j \in 1 .. Len(admitted) :
          i < j => admitted[i].timestamp <= admitted[j].timestamp

\* the first admitted vote is sealed in one block, the second in the next
C27_Witness ==
    /\ Len(admitted) = 2
    /\ Len(chain) = 3
    /\ chain[2].votes = <<admitted[1]>>
    /\ chain[3].votes = <<admitted[2]>>
    /\ admitted[1].voter_id = "bob"

\* C28: once validate_chain is false it stays false across every step of
\* register_voter, cast_vote and create_block_from_pending_votes, the last
\* of which still appends to the corrupted chain; a step that makes
\* validate_chain true again is a successful load_state.
C28_CorruptionIsPermanent ==
    [][/\ (~validate_chain /\ validate_chain')
             => /\ result' = Outcome("load_state", TRUE, "")
                /\ \E document \in RecoverDocuments : load_state(document)
       /\ (~validate_chain /\ result'.op # "load_state") => ~validate_chain'
       /\ \A now \in Times :
             (~validate_chain /\ result'.op = "create_block"
                /\ chain # <<>> /\ pending_votes # <<>>
                /\ chain[Len(chain)].index >= 0
                /\ create_block_from_pending_votes(now))
                => Len(chain') = Len(chain) + 1]_vars

\* a block was appended behind a block whose stored hash had been overwritten
C28_Witness ==
    /\ ~validate_chain
    /\ Len(chain) = 3
    /\ chain[2].hash = <<"corrupted_hash">>
    /\ chain[3].previous_hash = <<"corrupted_hash">>
    /\ result = Outcome("create_block", TRUE, "")

\* C29: a successful load_state leaves exactly the chain, registry and
\* pending_votes of the document, and the system goes on from there:
\* cast_vote for an id in the voted set fails with ALREADY_VOTED, a
\* successful create_block_from_pending_votes appends one block holding the
\* pending votes, with the latest block's index + 1 and the latest block's
\* hash, and validate_chain is true in every state.
C29_LoadReplacesAndContinues ==
    /\ []validate_chain
    /\ [][/\ result' = Outcome("load_state", TRUE, "")
             => \E document \in Documents :
                   /\ Decodes(document)
                   /\ chain' = Decoded(document).chain
                   /\ registered' = Decoded(document).registered
                   /\ voted' = Decoded(document).voted
                   /\ pending_votes' = Decoded(document).pending_votes
          /\ result'.op = "cast_vote"
             => \A voter_id \in voted, candidate \in CandidateInputs,
                   now \in Times :
                   cast_vote(voter_id, candidate, now)
                     => /\ result' = Outcome("cast_vote", FALSE, "ALREADY_VOTED")
                        /\ UNCHANGED <<pending_votes, voted>>
          /\ result' = Outcome("create_block", TRUE, "")
             => /\ Len(chain') = Len(chain) + 1
                /\ SubSeq(chain', 1, Len(chain)) = chain
                /\ chain'[Len(chain')].index = chain[Len(chain)].index + 1
                /\ chain'[Len(chain')].previous_hash = chain[Len(chain)].hash
                /\ chain'[Len(chain')].votes = pending_votes]_vars

\* a block was appended behind the block of a loaded chain: alice's vote of
\* the loaded block, and the vote she cast after the load
C29_Witness ==
    /\ result = Outcome("create_block", TRUE, "")
    /\ Len(chain) = 3
    /\ chain[2] = block_from_dict(AliceBlockRecord)
    /\ chain[3].votes[1].voter_id = "alice"
    /\ validate_chain

\* C30: load_state succeeds exactly for a document that decodes and whose
\* chain passes validate_chain, whatever validate_system_integrity says
\* about the rest: a document with a voted id without any vote, or with a
\* sealed vote whose voter is not marked as voted, is adopted although its
\* integrity_valid is false.
C30_LoadIgnoresIntegrity ==
    [][/\ \A document \in Documents :
             (result'.op = "load_state" /\ load_state(document))
               => (result'.success
                     <=> (Decodes(document)
                            /\ validate_chain_of(Decoded(document).chain)))
       /\ \A document \in {VotedNoVoteDocument, SealedUnmarkedDocument} :
             (result'.op = "load_state" /\ load_state(document))
               => /\ result' = Outcome("load_state", TRUE, "")
                  /\ chain' = Decoded(document).chain
                  /\ voted' = Decoded(document).voted
                  /\ ~validate_system_integrity_of(Decoded(document)).integrity_valid
                  /\ validate_system_integrity_of(Decoded(document)).issues # <<>>]_vars

\* a document with a voted id that has no vote was adopted
C30_Witness ==
    /\ result = Outcome("load_state", TRUE, "")
    /\ ~validate_system_integrity.integrity_valid
    /\ validate_system_integrity.blockchain_valid
    /\ voted = {"alice"}
    /\ AllCountedVotes = <<>>

\* the step is one of the direct mutations: they alone set tampered without
\* making the chain longer
DirectMutation == ~tampered /\ tampered' /\ Len(chain') <= Len(chain)

\* the step is a call of the operation op (a direct mutation leaves the
\* outcome of the call before it in place)
Called(op) == result'.op = op /\ ~DirectMutation

\* the arguments of add_block that are no list of Votes
MalformedInputs ==
    {PyStr("not a list"),
     PyList(<<PyStr("not a vote object")>>),
     PyList(<<PyVote(DirectVote), PyStr("not a vote object")>>)}

\* C31: add_block given something that is no list, or a list with an item
\* that is no Vote, returns False and leaves the chain as it was; whenever
\* add_block returns False the chain is unchanged, and whenever it returns
\* True the chain is the old chain followed by one block that has the next
\* index, the latest hash as previous_hash, the votes handed in and a hash
\* equal to its digest.
C31_AppendAllOrNothing ==
    [][/\ \A votes \in MalformedInputs, now \in Times :
             (Called("add_block") /\ Blockchain_add_block(votes, now))
               => /\ result' = Outcome("add_block", FALSE, "")
                  /\ chain' = chain
       /\ (Called("add_block") /\ ~result'.success) => chain' = chain
       /\ (Called("add_block") /\ result'.success)
             => /\ Len(chain') = Len(chain) + 1
                /\ SubSeq(chain', 1, Len(chain)) = chain
                /\ chain'[Len(chain')].index = chain[Len(chain)].index + 1
                /\ chain'[Len(chain')].previous_hash = chain[Len(chain)].hash
                /\ chain'[Len(chain')].votes \in {<<>>, <<DirectVote>>}
                /\ chain'[Len(chain')].hash = calculate_hash(chain'[Len(chain')])
                /\ chain'[Len(chain')].hash # <<>>]_vars

\* a direct add_block failed on a chain whose latest index was made
\* negative, with two blocks in the chain
C31_Witness ==
    /\ result = Outcome("add_block", FALSE, "")
    /\ Len(chain) = 2
    /\ chain[2].index = -2

\* C32: on an empty chain validate_chain is false, get_latest_block raises
\* IndexError, add_block returns False and the chain stays empty, and
\* create_block_from_pending_votes with pending votes fails and keeps them;
\* a direct change of a stored hash, previous_hash or index makes
\* validate_chain false, and a call of validate_chain returns that value
\* and changes nothing.
C32_CorruptedLedgerTolerated ==
    /\ [](chain = <<>> => ~validate_chain)
    /\ [][/\ (chain = <<>> /\ Called("get_latest_block"))
                => result' = Outcome("get_latest_block", FALSE, "IndexError")
          /\ (chain # <<>> /\ Called("get_latest_block"))
                => result' = Outcome("get_latest_block", TRUE, "")
          /\ (chain = <<>> /\ Called("add_block"))
                => /\ result' = Outcome("add_block", FALSE, "")
                   /\ chain' = <<>>
          /\ (chain = <<>> /\ pending_votes # <<>> /\ Called("create_block"))
                => /\ result' = Outcome("create_block", FALSE,
                                        "BLOCK_CREATION_FAILED")
                   /\ pending_votes' = pending_votes
                   /\ chain' = <<>>
          /\ DirectMutation => ~validate_chain'
          /\ Called("validate_chain")
                => /\ result' = Outcome("validate_chain", validate_chain, "")
                   /\ chain' = chain]_vars

\* a seal failed on the emptied chain, the pending vote is still there
C32_Witness ==
    /\ chain = <<>>
    /\ result = Outcome("create_block", FALSE, "BLOCK_CREATION_FAILED")
    /\ pending_votes # <<>>

\* C36: add_block called directly with the empty list appends a block
\* without votes; in every state that register_voter, cast_vote and
\* create_block_from_pending_votes alone have reached, the genesis block has
\* no votes and every other block has at least one.
C36_NoEmptyBlockFromVotingSystem ==
    /\ [](~tampered
            => /\ chain[1].votes = <<>>
               /\ \A i \in 2 .. Len(chain) : chain[i].votes # <<>>)
    /\ [][\A now \in Times :
            (/\ ~tampered
             /\ Called("add_block")
             /\ Blockchain_add_block(PyList(<<>>), now))
              => /\ result' = Outcome("add_block", TRUE, "")
                 /\ Len(chain') = Len(chain) + 1
                 /\ chain'[Len(chain')].votes = <<>>]_vars

\* a block without votes was appended behind a sealed block
C36_Witness ==
    /\ result = Outcome("add_block", TRUE, "")
    /\ Len(chain) = 3
    /\ chain[2].votes # <<>>
    /\ chain[3].votes = <<>>
    /\ validate_chain

\* C33: register_voter returns INVALID_VOTER_ID exactly for the empty id,
\* DUPLICATE_VOTER exactly for a non-empty id that is registered, and
\* success exactly for a non-empty id that is not; a failure leaves the
\* registered set as it was, a success adds that one id; the voted set,
\* pending_votes and the chain are never changed.
C33_RegisterOutcomes ==
    [][\A voter_id \in IdInputs :
          register_voter(voter_id)
            => /\ result' \in {Outcome("register_voter", TRUE, ""),
                               Outcome("register_voter", FALSE, "INVALID_VOTER_ID"),
                               Outcome("register_voter", FALSE, "DUPLICATE_VOTER")}
               /\ result'.error = "INVALID_VOTER_ID" <=> voter_id = ""
               /\ result'.error = "DUPLICATE_VOTER"
                     <=> (voter_id # "" /\ voter_id \in registered)
               /\ result'.success <=> (voter_id # "" /\ voter_id \notin registered)
               /\ result'.success
                     => /\ registered' = registered \cup {voter_id}
                        /\ Cardinality(registered') = Cardinality(registered) + 1
               /\ ~result'.success => registered' = registered
               /\ UNCHANGED <<voted, pending_votes, chain>>]_vars

\* a registration was refused as a duplicate, with a vote sealed and
\* another one pending
C33_Witness ==
    /\ result = Outcome("register_voter", FALSE, "DUPLICATE_VOTER")
    /\ registered = VoterIds
    /\ Len(chain) = 2
    /\ Len(pending_votes) = 1

\* C34: cast_vote with an empty candidate by a registered voter who has not
\* voted fails with INVALID_VOTE_DATA and stages and marks nothing; whenever
\* the last outcome is that failure, a cast_vote with a non-empty candidate
\* by a registered voter who has not voted succeeds and stages that vote.
C34_EmptyCandidateRefused ==
    [][/\ \A voter_id \in registered \ voted, now \in Times :
             cast_vote(voter_id, "", now)
               => /\ result' = Outcome("cast_vote", FALSE, "INVALID_VOTE_DATA")
                  /\ UNCHANGED <<pending_votes, voted, registered, chain>>
                  /\ voter_id \notin voted'
       /\ \A voter_id \in registered \ voted, candidate \in Candidates,
             now \in Times :
             (/\ result = Outcome("cast_vote", FALSE, "INVALID_VOTE_DATA")
              /\ cast_vote(voter_id, candidate, now))
               => /\ result' = Outcome("cast_vote", TRUE, "")
                  /\ pending_votes' =
                        Append(pending_votes,
                               [voter_id |-> voter_id, candidate |-> candidate,
                                timestamp |-> now])
                  /\ voted' = voted \cup {voter_id}]_vars

\* a vote with an empty candidate was refused; nobody has voted and nothing
\* is staged
C34_Witness ==
    /\ result = Outcome("cast_vote", FALSE, "INVALID_VOTE_DATA")
    /\ registered # {}
    /\ voted = {}
    /\ pending_votes = <<>>

\* C35: mark_as_voted of a registered id succeeds and leaves the voted set
\* with that id added, which is the same set when the id was in it; of the
\* empty id it raises the ValueError of an invalid id, of any other id that
\* is not registered the ValueError of an unregistered voter, and both leave
\* the voted set as it was; the registered set is never changed.
C35_MarkVotedIdempotent ==
    [][\A voter_id \in IdInputs :
          (result'.op = "mark_as_voted" /\ VoterManager_mark_as_voted(voter_id))
            => /\ registered' = registered
               /\ IF voter_id = ""
                  THEN /\ result' = Outcome("mark_as_voted", FALSE,
                                            "voter_id must be a non-empty string")
                       /\ voted' = voted
                  ELSE IF voter_id \notin registered
                  THEN /\ result' =
                            Outcome("mark_as_voted", FALSE,
                                    "Voter must be registered before marking as voted")
                       /\ voted' = voted
                  ELSE /\ result' = Outcome("mark_as_voted", TRUE, "")
                       /\ voted' = voted \cup {voter_id}
                       /\ voter_id \in voted => voted' = voted]_vars

\* mark_as_voted succeeded for a voter whose cast_vote had marked her and
\* whose vote is sealed
C35_Witness ==
    /\ result = Outcome("mark_as_voted", TRUE, "")
    /\ voted = {"alice"}
    /\ Len(chain) = 2
    /\ chain[2].timestamp = 2
    /\ VoterIdsOf(chain[2].votes) = {"alice"}

\* what get_vote_by_voter says of the voter: the status, or the error
Classification(voter_id) ==
    IF get_vote_by_voter(voter_id).success
    THEN get_vote_by_voter(voter_id).status
    ELSE get_vote_by_voter(voter_id).error

\* C37: in every state that register_voter, cast_vote and
\* create_block_from_pending_votes reach, get_vote_by_voter answers
\* VOTER_NOT_REGISTERED exactly for an id that is not registered,
\* registered_not_voted exactly for a registered id that has not voted,
\* pending with the voter's pending vote exactly when that vote is in
\* pending_votes, voted with the voter's sealed vote exactly when it is in a
\* block, and never VOTE_NOT_FOUND or MULTIPLE_VOTES_FOUND.
C37_VoterLookupConsistent ==
    \A voter_id \in IdInputs :
        /\ Classification(voter_id) = "VOTER_NOT_REGISTERED"
              <=> voter_id \notin registered
        /\ Classification(voter_id) = "registered_not_voted"
              <=> (voter_id \in registered /\ voter_id \notin voted)
        /\ Classification(voter_id) = "pending"
              <=> voter_id \in VoterIdsOf(pending_votes)
        /\ Classification(voter_id) = "voted"
              <=> voter_id \in VoterIdsOf(get_all_votes)
        /\ Classification(voter_id) = "pending"
              => \E i \in 1 .. Len(pending_votes) :
                    /\ pending_votes[i].voter_id = voter_id
                    /\ get_vote_by_voter(voter_id).vote = pending_votes[i]
        /\ Classification(voter_id) = "voted"
              => \E i \in 1 .. Len(get_all_votes) :
                    /\ get_all_votes[i].voter_id = voter_id
                    /\ get_vote_by_voter(voter_id).vote = get_all_votes[i]
        /\ Classification(voter_id)
              \in {"VOTER_NOT_REGISTERED", "registered_not_voted", "pending",
                   "voted"}

\* alice's vote is sealed, bob's is pending
C37_Witness ==
    /\ Classification("alice") = "voted"
    /\ Classification("bob") = "pending"
    /\ get_vote_by_voter("bob").vote.candidate = "A"

\* C38: a call of validate_hash, validate_chain, get_all_votes,
\* get_block_by_index, is_registered, has_voted, validate_system_integrity,
\* get_results or get_vote_by_voter leaves every block of the chain, stored
\* hashes included, the registered set, the voted set and pending_votes as
\* they were, whether or not the state was changed directly before.
C38_QueriesReadOnly ==
    [][(/\ result'.op \in {"validate_hash", "validate_chain", "get_all_votes",
                           "get_block_by_index", "is_registered", "has_voted",
                           "validate_system_integrity", "get_results",
                           "get_vote_by_voter"}
        /\ result' # result)
          => UNCHANGED <<chain, registered, voted, pending_votes>>]_vars

\* validate_chain returned False on a chain of three blocks with an
\* overwritten hash, and the overwritten hash is still there
C38_Witness ==
    /\ result = Outcome("validate_chain", FALSE, "")
    /\ Len(chain) = 3
    /\ chain[2].hash = <<"corrupted_hash">>
    /\ tampered

\* C39: a VotingSystem that has just been constructed holds exactly one
\* block, with index 0, no votes, previous_hash "0" and a hash equal to its
\* digest, no registered voter, no voted voter and no pending vote;
\* validate_chain is true and validate_system_integrity reports no issue.
C39_FreshSystem ==
    result = Outcome("init", TRUE, "")
      => /\ Len(chain) = 1
         /\ chain[1].index = 0
         /\ chain[1].votes = <<>>
         /\ chain[1].previous_hash = <<"0">>
         /\ chain[1].hash = calculate_hash(chain[1])
         /\ chain[1].timestamp > 0
         /\ registered = {}
         /\ voted = {}
         /\ pending_votes = <<>>
         /\ validate_chain
         /\ validate_system_integrity.blockchain_valid
         /\ validate_system_integrity.integrity_valid
         /\ validate_system_integrity.issues = <<>>

\* the state after construction, before any operation
C39_Witness ==
    /\ result = Outcome("init", TRUE, "")
    /\ get_block_count = 1
    /\ get_latest_block.index = 0
    /\ get_results.total_votes = 0

====
